---- MODULE Spec2Model ----
(***************************************************************************)
(* Nerdle: feedback scoring, partitioning of candidate solutions, the      *)
(* minimax guess ordering and solver, and the simulation / benchmark       *)
(* loops.  Words are sequences of letter codes (to_vector: ord(c) - 64, so *)
(* 'A' is 1); a score is the integer score_word_jit returns.               *)
(***************************************************************************)
EXTENDS Integers, Sequences, FiniteSets, TLC

\* ------------------------------------------------------------------ bounds
NumLetters == 3      \* letters 'A' .. of the words that are scored
WordLen == 3         \* word length (Scorer.size) of the words that are scored
LexSize == 4         \* number of words the small dictionaries are drawn from
MaxBucket == 2       \* largest bucket size / bucket count of a free Guess record
BigAlphabet == 17    \* letters of the dictionary of one-letter words
MaxSolutions == 2    \* longest list of solutions given to run_quordle

\* --------------------------------------------------------------- constants
MAX_ITERS == 15      \* Simulator.run, Simulator.run_quordle
max_workers == 8     \* Benchmarker.run_benchmark: ProcessPoolExecutor(max_workers=8)

Letters == 1..NumLetters
Words == [1..WordLen -> Letters]
NumWords == NumLetters ^ WordLen

\* The k-th word (k from 0) of Words in lexicographic order.
WordAt(k) == [i \in 1..WordLen |-> ((k \div (NumLetters ^ (WordLen - i))) % NumLetters) + 1]

\* The words small dictionaries are made of: near neighbours in Words, so that
\* a guess leaves several of them in one bucket.
Lexicon == {WordAt((2 * k) % NumWords) : k \in 0..(LexSize - 1)}

\* ----------------------------------------------------------------- helpers
RECURSIVE SumSeq(_)
SumSeq(s) == IF s = <<>> THEN 0 ELSE Head(s) + SumSeq(Tail(s))

\* Python's str "<" on two words of one length: the first differing letter decides.
RECURSIVE StrLess(_, _)
StrLess(a, b) ==
    IF a = <<>> \/ b = <<>> THEN a = <<>> /\ b # <<>>
    ELSE IF Head(a) # Head(b) THEN Head(a) < Head(b)
    ELSE StrLess(Tail(a), Tail(b))

\* All duplicate-free sequences over the set S (a WordSeries, or one order in
\* which a Python set is iterated).
RECURSIVE Orders(_)
Orders(S) ==
    IF S = {} THEN {<<>>}
    ELSE UNION {{<<x>> \o t : t \in Orders(S \ {x})} : x \in S}

Range(s) == {s[i] : i \in 1..Len(s)}

\* A set of words as the sequence sorted by StrLess.
RECURSIVE Sorted(_)
Sorted(S) ==
    IF S = {} THEN <<>>
    ELSE LET m == CHOOSE x \in S : \A y \in S \ {x} : StrLess(x, y)
         IN  <<m>> \o Sorted(S \ {m})

\* ------------------------------------------------------------------ Scorer
Scorer_powers_from_size(size) == [i \in 1..size |-> 3 ^ (size - i + 1)]

\* Scorer.__init__: self._powers = 3 ** arange(size - 1, -1, -1)
Scorer_powers(size) == [i \in 1..size |-> 3 ^ (size - i)]

\* np.base_repr(n, base=3): the base-3 digits of n, most significant first,
\* without padding ("0" for 0).
RECURSIVE base_repr(_)
base_repr(n) == IF n < 3 THEN <<n>> ELSE Append(base_repr(n \div 3), n % 3)

\* A digit string cast to int32 by np.array(vector, dtype=np.int32): the
\* string is read as a decimal numeral.
RECURSIVE AsInt32(_)
AsInt32(digits) ==
    IF digits = <<>> THEN 0
    ELSE 10 * AsInt32(SubSeq(digits, 1, Len(digits) - 1)) + digits[Len(digits)]

\* get_fast_ternary_lookup(size)[i] (i from 0)
get_fast_ternary_lookup(size, i) == AsInt32(base_repr(i))

\* Scorer.perfect_score: self._ternaries[-1]
perfect_score(size) == get_fast_ternary_lookup(size, 3 ^ size - 1)

\* Scorer.is_perfect_score
is_perfect_score(size, score) == score = perfect_score(size)

\* score_word_jit: matches = solution_array == guess_array
matches(solution, guess) == [i \in 1..Len(guess) |-> solution[i] = guess[i]]

\* the inner loop "for j in range(i)" of score_word_jit
num_times_already_observed(guess, m, i) ==
    Cardinality({j \in 1..(i - 1) : ~m[j] /\ guess[j] = guess[i]})

\* the inner loop "for (j, is_match_j) in enumerate(matches)" of score_word_jit
num_times_in_solution(solution, guess, m, i) ==
    Cardinality({j \in 1..Len(solution) : ~m[j] /\ solution[j] = guess[i]})

is_partial_match_off_by_one(solution, guess, m, i) ==
    num_times_already_observed(guess, m, i) <= num_times_in_solution(solution, guess, m, i)

is_partial_match(solution, guess, m, i) ==
    num_times_already_observed(guess, m, i) < num_times_in_solution(solution, guess, m, i)

score_word_jit(solution, guess, powers) ==
    LET m == matches(solution, guess)
        exact == [i \in 1..Len(guess) |-> IF m[i] THEN 2 * powers[i] ELSE 0]
        partial == [i \in 1..Len(guess) |->
                      IF ~m[i] /\ is_partial_match(solution, guess, m, i)
                      THEN powers[i] ELSE 0]
    IN  SumSeq(exact) + SumSeq(partial)

\* Scorer.score_word
score_word(solution, guess) == score_word_jit(solution, guess, Scorer_powers(Len(guess)))

\* np.unique(scores): the distinct values, ascending
RECURSIVE np_unique(_)
np_unique(S) ==
    IF S = {} THEN <<>>
    ELSE LET m == CHOOSE x \in S : \A y \in S : x <= y
         IN  <<m>> \o np_unique(S \ {m})

\* np.unique(..., return_inverse=True): for each element its index in the
\* unique values
np_unique_inverse(scores) ==
    LET unique_scores == np_unique(Range(scores))
    IN  [k \in 1..Len(scores) |-> CHOOSE i \in 1..Len(unique_scores) : unique_scores[i] = scores[k]]

\* WordSeries.__getitem__ with a boolean mask aligned to the series' order
RECURSIVE WordSeries_getitem(_, _)
WordSeries_getitem(series, mask) ==
    IF series = <<>> THEN <<>>
    ELSE (IF Head(mask) THEN <<Head(series)>> ELSE <<>>)
             \o WordSeries_getitem(Tail(series), Tail(mask))

\* score_func(potential_solns.words, guess): np.vectorize(self.score_word)
score_func(potential_solns, guess) ==
    [k \in 1..Len(potential_solns) |-> score_word(potential_solns[k], guess)]

\* Scorer.get_solutions_by_score: a dict from each unique score to the
\* WordSeries of the candidates that map to it
Scorer_get_solutions_by_score(potential_solns, guess) ==
    LET scores == score_func(potential_solns, guess)
        unique_scores == np_unique(Range(scores))
        positions == np_unique_inverse(scores)
    IN  [unique_score \in Range(unique_scores) |->
            LET i == CHOOSE n \in 1..Len(unique_scores) : unique_scores[n] = unique_score
                maps_to_score == [k \in 1..Len(scores) |-> positions[k] = i]
            IN  WordSeries_getitem(potential_solns, maps_to_score)]

\* Scorer.get_histogram: np.unique(scores, return_counts=True)
Scorer_get_histogram(potential_solns, guess) ==
    LET scores == score_func(potential_solns, guess)
    IN  [score \in Range(scores) |-> Cardinality({k \in 1..Len(scores) : scores[k] = score})]

\* ------------------------------------------------------------------ Solver
EmptyDict == [k \in {} |-> {}]

bucket_overwrite(solns_by_score, score, soln) ==
    [k \in DOMAIN solns_by_score \cup {score} |->
        IF k = score THEN {soln} ELSE solns_by_score[k]]

\* potential_solns_by_score[score].add(soln) on a defaultdict(set)
bucket_add(solns_by_score, score, soln) ==
    [k \in DOMAIN solns_by_score \cup {score} |->
        IF k = score
        THEN (IF score \in DOMAIN solns_by_score THEN solns_by_score[score] ELSE {}) \cup {soln}
        ELSE solns_by_score[k]]

\* Solver.get_solutions_by_score: the loop over potential_solns, in the order
\* the set is iterated
RECURSIVE Solver_get_solutions_by_score_loop(_, _, _)
Solver_get_solutions_by_score_loop(order, guess, solns_by_score) ==
    IF order = <<>> THEN solns_by_score
    ELSE Solver_get_solutions_by_score_loop(Tail(order), guess,
             bucket_add(solns_by_score, score_word(Head(order), guess), Head(order)))

Solver_get_solutions_by_score(order, guess) ==
    Solver_get_solutions_by_score_loop(order, guess, EmptyDict)

\* histogram[score] += 1 on a defaultdict(int)
histogram_increment(histogram, score) ==
    [k \in DOMAIN histogram \cup {score} |->
        IF k = score
        THEN (IF score \in DOMAIN histogram THEN histogram[score] ELSE 0) + 1
        ELSE histogram[k]]

\* Solver.get_histogram: the loop over potential_solns, in the order the set
\* is iterated
RECURSIVE Solver_get_histogram_loop(_, _, _)
Solver_get_histogram_loop(order, guess, histogram) ==
    IF order = <<>> THEN histogram
    ELSE Solver_get_histogram_loop(Tail(order), guess,
             histogram_increment(histogram, score_word(Head(order), guess)))

Solver_get_histogram(order, guess) == Solver_get_histogram_loop(order, guess, EmptyDict)

\* ------------------------------------------------------------------- Guess
\* A Guess record holds word, size_of_largest_bucket and number_of_buckets;
\* its entropy field is a float that no comparison below reads.
RECURSIVE MaxOf(_)
MaxOf(s) == IF Len(s) = 1 THEN s[1]
            ELSE LET m == MaxOf(Tail(s)) IN IF s[1] >= m THEN s[1] ELSE m

RECURSIVE MinOf(_)
MinOf(s) == IF Len(s) = 1 THEN s[1]
            ELSE LET m == MinOf(Tail(s)) IN IF s[1] <= m THEN s[1] ELSE m

\* list(histogram.values())
dict_values(histogram) ==
    LET keys == np_unique(DOMAIN histogram)
    IN  [k \in 1..Len(keys) |-> histogram[keys[k]]]

Guess_create_min_bucket(guess, histogram) ==
    [word |-> guess,
     size_of_largest_bucket |-> MinOf(dict_values(histogram)),
     number_of_buckets |-> Cardinality(DOMAIN histogram)]

\* Guess.create
Guess_create(guess, histogram) ==
    [word |-> guess,
     size_of_largest_bucket |-> MaxOf(dict_values(histogram)),
     number_of_buckets |-> Cardinality(DOMAIN histogram)]

improves_upon_no_else(self, other, common_words) ==
    IF self.size_of_largest_bucket # other.size_of_largest_bucket
    THEN self.size_of_largest_bucket < other.size_of_largest_bucket
    ELSE IF self.word \in common_words /\ other.word \notin common_words
    THEN TRUE
    ELSE IF self.number_of_buckets # other.number_of_buckets
    THEN self.number_of_buckets > other.number_of_buckets
    ELSE StrLess(self.word, other.word)

\* Guess.improves_upon
improves_upon(self, other, common_words) ==
    IF self.size_of_largest_bucket # other.size_of_largest_bucket
    THEN self.size_of_largest_bucket < other.size_of_largest_bucket
    ELSE IF self.word \in common_words /\ other.word \notin common_words
    THEN TRUE
    ELSE IF self.word \notin common_words /\ other.word \in common_words
    THEN FALSE
    ELSE IF self.number_of_buckets # other.number_of_buckets
    THEN self.number_of_buckets > other.number_of_buckets
    ELSE StrLess(self.word, other.word)

\* Guess.comparer: cmp_items (Guess defines no __eq__: "==" is identity)
cmp_items(guess1, guess2, potential_solutions) ==
    IF improves_upon(guess1, guess2, potential_solutions) THEN -1
    ELSE IF guess1 = guess2 THEN 0
    ELSE 1

\* ----------------------------------------------------------- MinimaxSolver
\* MinimaxSolver.all_guesses: one Guess per word, in the order all_words is
\* iterated; potential_solutions is iterated in the order given
all_guesses(potential_solutions, all_words) ==
    [k \in 1..Len(all_words) |->
        Guess_create(all_words[k], Solver_get_histogram(potential_solutions, all_words[k]))]

\* min(guesses, key=cmp_func): the first item is kept until a later one
\* compares less (cmp_to_key: K.__lt__ is cmp_items(...) < 0)
RECURSIVE min_by_key(_, _, _)
min_by_key(guesses, best, potential_solutions) ==
    IF guesses = <<>> THEN best
    ELSE min_by_key(Tail(guesses),
                    IF cmp_items(Head(guesses), best, potential_solutions) < 0
                    THEN Head(guesses) ELSE best,
                    potential_solutions)

\* MinimaxSolver.get_best_guess
MinimaxSolver_get_best_guess(potential_solutions, all_words) ==
    LET guesses == all_guesses(potential_solutions, all_words)
    IN  min_by_key(Tail(guesses), Head(guesses), Range(potential_solutions))

\* ------------------------------------------------------- DeepMinimaxSolver
\* N_BRANCH of DeepMinimaxSolver.get_best_guess
N_BRANCH == 5

\* s[:n]
take(s, n) == SubSeq(s, 1, IF Len(s) < n THEN Len(s) ELSE n)

\* sorted(guesses, key=cmp_func): a stable sort that only asks "less than"
\* (cmp_items(...) < 0); each item moves left past the items it is less than
RECURSIVE insert_by_key(_, _, _)
insert_by_key(sorted, guess, potential_solutions) ==
    IF sorted = <<>> THEN <<guess>>
    ELSE IF cmp_items(guess, sorted[Len(sorted)], potential_solutions) < 0
    THEN Append(insert_by_key(SubSeq(sorted, 1, Len(sorted) - 1), guess, potential_solutions),
                sorted[Len(sorted)])
    ELSE Append(sorted, guess)

RECURSIVE sorted_by_key(_, _)
sorted_by_key(guesses, potential_solutions) ==
    IF guesses = <<>> THEN <<>>
    ELSE insert_by_key(sorted_by_key(SubSeq(guesses, 1, Len(guesses) - 1), potential_solutions),
                       guesses[Len(guesses)], potential_solutions)

\* The keys of the dict Solver.get_solutions_by_score returns, in insertion
\* order: each score where the iteration over potential_solns first meets it
RECURSIVE dict_keys(_, _, _)
dict_keys(order, guess, keys) ==
    IF order = <<>> THEN keys
    ELSE LET score == score_word(Head(order), guess)
         IN  dict_keys(Tail(order), guess,
                       IF score \in Range(keys) THEN keys ELSE Append(keys, score))

\* sorted(solns_by_score, key=lambda s: -len(solns_by_score[s])): stable, the
\* larger bucket first
RECURSIVE insert_by_len(_, _, _)
insert_by_len(sorted, s, solns_by_score) ==
    IF sorted = <<>> THEN <<s>>
    ELSE IF Cardinality(solns_by_score[s]) > Cardinality(solns_by_score[sorted[Len(sorted)]])
    THEN Append(insert_by_len(SubSeq(sorted, 1, Len(sorted) - 1), s, solns_by_score),
                sorted[Len(sorted)])
    ELSE Append(sorted, s)

RECURSIVE sorted_by_len(_, _)
sorted_by_len(keys, solns_by_score) ==
    IF keys = <<>> THEN <<>>
    ELSE insert_by_len(sorted_by_len(SubSeq(keys, 1, Len(keys) - 1), solns_by_score),
                       keys[Len(keys)], solns_by_score)

\* The words of a bucket (a set) in the order the inner solver iterates it:
\* here the order of potential_solutions, of which the best guess is
\* independent
in_order(order, bucket) == SelectSeq(order, LAMBDA soln : soln \in bucket)

max_by_key_keeps_first(guesses, best, potential_solutions) == best

\* max(nested_best_guesses, key=cmp_func): the first item is kept until a
\* later one compares greater (cmp_items(...) > 0).  Two Guess objects with
\* equal fields compare greater both ways in the code (cmp_items's "==" is
\* identity), so the later one is kept: the same record.
RECURSIVE max_by_key(_, _, _)
max_by_key(guesses, best, potential_solutions) ==
    IF guesses = <<>> THEN best
    ELSE max_by_key(Tail(guesses),
                    IF cmp_items(Head(guesses), best, potential_solutions) > 0
                    THEN Head(guesses) ELSE best,
                    potential_solutions)

\* The body of "for guess in best_guesses": worst_best_guess for one guess;
\* the inner solver is a MinimaxSolver
DeepMinimaxSolver_worst_best_guess(potential_solutions, all_words, guess) ==
    LET solns_by_score == Solver_get_solutions_by_score(potential_solutions, guess.word)
        worst_outcomes == sorted_by_len(dict_keys(potential_solutions, guess.word, <<>>),
                                        solns_by_score)
        branches == take(worst_outcomes, N_BRANCH)
        nested_best_guesses ==
            <<>> \o [k \in 1..Len(branches) |->
                MinimaxSolver_get_best_guess(
                    in_order(potential_solutions, solns_by_score[branches[k]]), all_words)]
    IN  max_by_key(Tail(nested_best_guesses), Head(nested_best_guesses),
                   Range(potential_solutions))

\* DeepMinimaxSolver.get_best_guess
DeepMinimaxSolver_get_best_guess(potential_solutions, all_words) ==
    LET guesses == all_guesses(potential_solutions, all_words)
        best_guesses == take(sorted_by_key(guesses, Range(potential_solutions)), N_BRANCH)
        nested_worst_best_guess_by_guess ==
            <<>> \o [k \in 1..Len(best_guesses) |->
                DeepMinimaxSolver_worst_best_guess(potential_solutions, all_words,
                                                   best_guesses[k])]
        best_nested_worst_best_guess ==
            min_by_key(Tail(nested_worst_best_guess_by_guess),
                       Head(nested_worst_best_guess_by_guess), Range(potential_solutions))
        first == CHOOSE k \in 1..Len(best_guesses) :
                    /\ nested_worst_best_guess_by_guess[k] = best_nested_worst_best_guess
                    /\ \A j \in 1..(k - 1) :
                         nested_worst_best_guess_by_guess[j] # best_nested_worst_best_guess
    IN  best_guesses[first]

\* --------------------------------------------------------------- Simulator
\* HistogramBuilder.get_solns_by_score: the cached Scorer.get_solutions_by_score
HistogramBuilder_get_solns_by_score(available_answers, best_guess) ==
    Scorer_get_solutions_by_score(available_answers, best_guess)

\* The locals of Simulator.run before the first iteration.  guesses is the
\* list of the guesses played so far (the reporter's view of the run).
run_start(all_words, common_words, solution, first_guess) ==
    [pc |-> "guessing", all_words |-> all_words, common_words |-> common_words,
     available_answers |-> common_words, solution |-> solution, best_guess |-> first_guess, i |-> 0,
     observed_score |-> -1, ternary_score |-> <<>>, guesses |-> <<>>, returned |-> 0]

\* self.solver.get_best_guess(all_words, available_answers).word: the two
\* arguments bind to MinimaxSolver.get_best_guess's parameters by position
Simulator_next_guess(all_words, available_answers) ==
    MinimaxSolver_get_best_guess(all_words, available_answers).word

run_body_from_common_words(r) ==
    LET histogram == HistogramBuilder_get_solns_by_score(r.common_words, r.best_guess)
        observed_score == score_word(r.solution, r.best_guess)
        scored == [r EXCEPT !.observed_score = observed_score,
                            !.guesses = Append(r.guesses, r.best_guess)]
    IN  IF observed_score \notin DOMAIN histogram
        THEN [scored EXCEPT !.pc = "crashed"]
        ELSE LET reported == [scored EXCEPT !.available_answers = histogram[observed_score],
                                            !.ternary_score = base_repr(observed_score)]
             IN  IF r.best_guess = r.solution
                 THEN [reported EXCEPT !.pc = "converged", !.returned = r.i + 1]
                 ELSE [reported EXCEPT !.i = r.i + 1,
                          !.best_guess = Simulator_next_guess(r.all_words,
                                                              histogram[observed_score])]

\* One iteration of the loop of Simulator.run, from "histogram = ..." to the
\* next guess: KeyError on histogram[observed_score] ends the run ("crashed")
run_body(r) ==
    LET histogram == HistogramBuilder_get_solns_by_score(r.available_answers, r.best_guess)
        observed_score == score_word(r.solution, r.best_guess)
        scored == [r EXCEPT !.observed_score = observed_score,
                            !.guesses = Append(r.guesses, r.best_guess)]
    IN  IF observed_score \notin DOMAIN histogram
        THEN [scored EXCEPT !.pc = "crashed"]
        ELSE LET reported == [scored EXCEPT !.available_answers = histogram[observed_score],
                                            !.ternary_score = base_repr(observed_score)]
             IN  IF r.best_guess = r.solution
                 THEN [reported EXCEPT !.pc = "converged", !.returned = r.i + 1]
                 ELSE [reported EXCEPT !.i = r.i + 1,
                          !.best_guess = Simulator_next_guess(r.all_words,
                                                              histogram[observed_score])]

\* raise FailedToFindASolutionError once range(MAX_ITERS) is used up
run_raise(r) == [r EXCEPT !.pc = "exhausted"]

\* Simulator.run from its locals r to its end
RECURSIVE Simulator_run(_)
Simulator_run(r) ==
    IF r.pc # "guessing" THEN r
    ELSE IF r.i < MAX_ITERS THEN Simulator_run(run_body(r))
    ELSE run_raise(r)

\* solutions.pop(to_pop): the list without its element at index k (from 1)
list_pop(list, k) == [n \in 1..(Len(list) - 1) |-> IF n < k THEN list[n] ELSE list[n + 1]]

\* The locals of Simulator.run_quordle before the first iteration.  ids names
\* each entry of solutions by its index in the list the call was given;
\* scored, perfect and removed_before are the entries the last iteration
\* scored, those among them whose feedback was perfect, and the entries
\* removed before it.
quordle_start(all_words, common_words, solutions, first_guess) ==
    [pc |-> "guessing", all_words |-> all_words, common_words |-> common_words,
     given |-> solutions, solutions |-> solutions, ids |-> [j \in 1..Len(solutions) |-> j],
     available_answers_list |-> [j \in 1..Len(solutions) |-> common_words],
     best_guess |-> first_guess, iters |-> 0,
     scored |-> {}, perfect |-> {}, removed_before |-> {}, removed |-> {}]

\* One iteration of the loop of Simulator.run_quordle; next_guess is the word
\* self.solver.get_best_guess(all_words, available_answers_list) returns.
quordle_body(q, next_guess) ==
    LET js == 1..Len(q.solutions)
        histogram == [j \in js |->
            HistogramBuilder_get_solns_by_score(q.available_answers_list[j], q.best_guess)]
        observed_score == [j \in js |-> score_word(q.solutions[j], q.best_guess)]
        key_errors == {j \in js : observed_score[j] \notin DOMAIN histogram[j]}
        first_error == CHOOSE j \in key_errors : \A k \in key_errors : j <= k
        hits == {j \in js : q.best_guess = q.solutions[j]}
        to_pop == IF hits = {} THEN 0 ELSE CHOOSE j \in hits : \A k \in hits : k <= j
        turn == [q EXCEPT !.removed_before = q.removed,
                          !.scored = {q.ids[j] : j \in js},
                          !.perfect = {q.ids[j] : j \in
                              {k \in js : observed_score[k] = 3 ^ Len(q.best_guess) - 1}},
                          !.iters = q.iters + 1]
        narrowed == [j \in js |-> histogram[j][observed_score[j]]]
    IN  IF key_errors # {}
        THEN [turn EXCEPT !.pc = "crashed",
                          !.scored = {q.ids[j] : j \in 1..first_error},
                          !.perfect = {q.ids[j] : j \in
                              {k \in 1..first_error : observed_score[k] = 3 ^ Len(q.best_guess) - 1}}]
        ELSE IF to_pop = 0
        THEN [turn EXCEPT !.available_answers_list = narrowed, !.best_guess = next_guess]
        ELSE LET popped == [turn EXCEPT !.solutions = list_pop(q.solutions, to_pop),
                                        !.ids = list_pop(q.ids, to_pop),
                                        !.available_answers_list = list_pop(narrowed, to_pop),
                                        !.removed = q.removed \cup {q.ids[to_pop]}]
             IN  IF Len(popped.solutions) = 0
                 THEN [popped EXCEPT !.pc = "done"]
                 ELSE [popped EXCEPT !.best_guess = next_guess]

\* ------------------------------------------------------------- Benchmarker
\* f = partial(self.simulator.run, first_guess=first_guess) applied to one
\* solution: the turn count run returns, or the error it raises
benchmark_task(all_words, common_words, solution, first_guess) ==
    LET r == Simulator_run(run_start(all_words, common_words, solution, first_guess))
    IN  [returned |-> r.pc = "converged", n |-> r.returned]

histogram_set_to_one(histogram, n) ==
    [k \in DOMAIN histogram \cup {n} |-> IF k = n THEN 1 ELSE histogram[k]]

\* histogram[n] += 1 on a defaultdict(int)
histogram_count(histogram, n) ==
    [k \in DOMAIN histogram \cup {n} |->
        IF k = n THEN (IF n \in DOMAIN histogram THEN histogram[n] ELSE 0) + 1
        ELSE histogram[k]]

\* "for n in n_guess: histogram[n] += 1": executor.map yields the results in
\* the order the solutions were submitted and re-raises a task's error when
\* its turn comes.  The state of the loop is <<raised, histogram>>.
RECURSIVE aggregate(_, _, _)
aggregate(n_guess, k, histogram) ==
    IF k > Len(n_guess) THEN [raised |-> FALSE, histogram |-> histogram]
    ELSE IF ~n_guess[k].returned THEN [raised |-> TRUE, histogram |-> histogram]
    ELSE aggregate(n_guess, k + 1, histogram_count(histogram, n_guess[k].n))

\* ------------------------------------------------------------------- state
VARIABLES
    scorer_call,    \* one Scorer.score_word / is_perfect_score call: arguments and results
    partition_call, \* one get_solutions_by_score call: arguments and result
    order_call,     \* one pair of Guess.improves_upon calls: arguments and results
    solver_call,    \* one MinimaxSolver.get_best_guess call: arguments and result
    run,            \* the locals of one Simulator.run call
    quordle,        \* the locals of one Simulator.run_quordle call
    bench           \* one Benchmarker.run_benchmark call: the pool's tasks and the locals

vars == <<scorer_call, partition_call, order_call, solver_call, run, quordle, bench>>

Idle == [pc |-> "idle"]

\* ---------------------------------------------- Scorer.score_word, called
ScorerInit ==
    /\ \E s \in Words, g \in Words :
        scorer_call = [pc |-> "args", solution |-> s, guess |-> g, score |-> -1, perfect |-> FALSE]
    /\ partition_call = Idle
    /\ order_call = Idle
    /\ solver_call = Idle
    /\ run = Idle
    /\ quordle = Idle
    /\ bench = Idle

\* observed_score = scorer.score_word(solution, guess)
ScoreWord ==
    /\ scorer_call.pc = "args"
    /\ scorer_call' = [scorer_call EXCEPT !.pc = "scored",
                          !.score = score_word(scorer_call.solution, scorer_call.guess)]
    /\ UNCHANGED <<partition_call, order_call, solver_call, run, quordle, bench>>

\* scorer.is_perfect_score(observed_score)
IsPerfectScore ==
    /\ scorer_call.pc = "scored"
    /\ scorer_call' = [scorer_call EXCEPT !.pc = "judged",
                          !.perfect = is_perfect_score(Len(scorer_call.guess), scorer_call.score)]
    /\ UNCHANGED <<partition_call, order_call, solver_call, run, quordle, bench>>

ScorerNext == ScoreWord \/ IsPerfectScore

SpecScorer == ScorerInit /\ [][ScorerNext]_vars

\* The digit of a score at position i (1 is the most significant) of L.
DigitAt(score, L, i) == (score \div (3 ^ (L - i))) % 3

NonExact(solution, guess) == {i \in 1..Len(guess) : guess[i] # solution[i]}

\* C1: score_word returns the base-3 integer whose digit at position i is 2
\* when guess[i] = solution[i], otherwise 1 when fewer earlier non-exact guess
\* positions carry guess[i] than non-exact solution positions do, otherwise 0;
\* with one non-exact X in the solution and X at two non-exact guess
\* positions, the first is partial and the second absent.
C1_ScoreDigits ==
    scorer_call.pc # "args" =>
        LET s == scorer_call.solution
            g == scorer_call.guess
            L == Len(g)
            ne == NonExact(s, g)
            earlier(i) == Cardinality({j \in ne : j < i /\ g[j] = g[i]})
            available(i) == Cardinality({j \in ne : s[j] = g[i]})
            digit(i) == IF g[i] = s[i] THEN 2
                        ELSE IF earlier(i) < available(i) THEN 1 ELSE 0
        IN  /\ scorer_call.score >= 0
            /\ scorer_call.score < 3 ^ L
            /\ \A i \in 1..L : DigitAt(scorer_call.score, L, i) = digit(i)
            /\ \A x \in Letters : \A i \in ne : \A j \in ne :
                  ( /\ i < j
                    /\ {k \in ne : g[k] = x} = {i, j}
                    /\ Cardinality({k \in ne : s[k] = x}) = 1 )
                  => /\ DigitAt(scorer_call.score, L, i) = 1
                     /\ DigitAt(scorer_call.score, L, j) = 0

\* A scored pair with one non-exact 'A' in the solution and two in the
\* guess: solution BBA, guess AAB, digits 1 0 1.
C1_Witness ==
    /\ scorer_call.pc = "scored"
    /\ SubSeq(scorer_call.solution, 1, 3) = <<2, 2, 1>>
    /\ SubSeq(scorer_call.guess, 1, 3) = <<1, 1, 2>>
    /\ DigitAt(scorer_call.score, Len(scorer_call.guess), 1) = 1
    /\ DigitAt(scorer_call.score, Len(scorer_call.guess), 2) = 0

\* C2: is_perfect_score(score_word(s, g)) holds exactly when s = g, and
\* score_word(w, w) is the Scorer's perfect_score.
C2_PerfectIffEqual ==
    scorer_call.pc = "judged" =>
        /\ scorer_call.perfect <=> (scorer_call.solution = scorer_call.guess)
        /\ scorer_call.solution = scorer_call.guess
              => scorer_call.score = perfect_score(Len(scorer_call.guess))

\* C3: score_word(s, g) lies in [0, 3^L) and is 3^L - 1 exactly when g = s.
C3_ScoreRange ==
    scorer_call.pc # "args" =>
        /\ scorer_call.score \in 0..(3 ^ Len(scorer_call.guess) - 1)
        /\ (scorer_call.score = 3 ^ Len(scorer_call.guess) - 1)
              <=> (scorer_call.guess = scorer_call.solution)

\* A word scored against itself.
C3_Witness ==
    /\ scorer_call.pc = "scored"
    /\ scorer_call.guess = scorer_call.solution
    /\ scorer_call.score = 3 ^ WordLen - 1

\* --------------------------------------------- get_solutions_by_score, called
\* The non-empty candidate series over the lexicon, in every order.
CandidateSeries == UNION {Orders(S) : S \in SUBSET Lexicon \ {{}}}

PartitionInit ==
    /\ \E c \in CandidateSeries, g \in Words :
        partition_call = [pc |-> "args", potential_solns |-> c, guess |-> g,
                          solns_by_score |-> EmptyDict]
    /\ scorer_call = Idle
    /\ order_call = Idle
    /\ solver_call = Idle
    /\ run = Idle
    /\ quordle = Idle
    /\ bench = Idle

\* Scorer.get_solutions_by_score(potential_solns, guess); the buckets are
\* WordSeries
ScorerGetSolutionsByScore ==
    /\ partition_call.pc = "args"
    /\ partition_call' = [partition_call EXCEPT !.pc = "scorer_dict",
            !.solns_by_score =
                Scorer_get_solutions_by_score(partition_call.potential_solns, partition_call.guess)]
    /\ UNCHANGED <<scorer_call, order_call, solver_call, run, quordle, bench>>

\* Solver.get_solutions_by_score(potential_solns, guess); the buckets are sets
SolverGetSolutionsByScore ==
    /\ partition_call.pc = "args"
    /\ partition_call' = [partition_call EXCEPT !.pc = "solver_dict",
            !.solns_by_score =
                Solver_get_solutions_by_score(partition_call.potential_solns, partition_call.guess)]
    /\ UNCHANGED <<scorer_call, order_call, solver_call, run, quordle, bench>>

PartitionNext == ScorerGetSolutionsByScore \/ SolverGetSolutionsByScore

SpecPartition == PartitionInit /\ [][PartitionNext]_vars

\* The number of times word c occurs in a bucket (a WordSeries or a set).
Occurrences(bucket, c) ==
    IF partition_call.pc = "scorer_dict"
    THEN Cardinality({k \in 1..Len(bucket) : bucket[k] = c})
    ELSE IF c \in bucket THEN 1 ELSE 0

Members(bucket) == IF partition_call.pc = "scorer_dict" THEN Range(bucket) ELSE bucket

\* C4: the buckets of get_solutions_by_score(C, g) partition C: every
\* candidate is in exactly one bucket, the one keyed by its score against g;
\* the union of the buckets is C; no bucket is empty; buckets are disjoint.
C4_Partition ==
    partition_call.pc \in {"scorer_dict", "solver_dict"} =>
        LET C == Range(partition_call.potential_solns)
            g == partition_call.guess
            d == partition_call.solns_by_score
        IN  /\ \A c \in C :
                /\ score_word(c, g) \in DOMAIN d
                /\ \A k \in DOMAIN d :
                     Occurrences(d[k], c) = (IF k = score_word(c, g) THEN 1 ELSE 0)
            /\ UNION {Members(d[k]) : k \in DOMAIN d} = C
            /\ \A k \in DOMAIN d : Members(d[k]) # {}
            /\ \A k1 \in DOMAIN d : \A k2 \in DOMAIN d :
                 k1 # k2 => Members(d[k1]) \cap Members(d[k2]) = {}

\* A candidate set split into several buckets, one of them holding two words.
C4_Witness ==
    /\ partition_call.pc \in {"scorer_dict", "solver_dict"}
    /\ Cardinality(DOMAIN partition_call.solns_by_score) >= 2
    /\ \E k \in DOMAIN partition_call.solns_by_score :
         Cardinality(Members(partition_call.solns_by_score[k])) >= 2

\* ------------------------------------------------- Guess.improves_upon, called
GuessRecords ==
    [word : Lexicon, size_of_largest_bucket : 1..MaxBucket, number_of_buckets : 1..MaxBucket]

OrderInit ==
    /\ \E cw \in SUBSET Lexicon, g1 \in GuessRecords, g2 \in GuessRecords :
        order_call = [pc |-> "args", common_words |-> cw, guess1 |-> g1, guess2 |-> g2,
                      forth |-> FALSE, back |-> FALSE]
    /\ scorer_call = Idle
    /\ partition_call = Idle
    /\ solver_call = Idle
    /\ run = Idle
    /\ quordle = Idle
    /\ bench = Idle

\* guess1.improves_upon(guess2, common_words) and
\* guess2.improves_upon(guess1, common_words)
ImprovesUpon ==
    /\ order_call.pc = "args"
    /\ order_call' = [order_call EXCEPT !.pc = "compared",
            !.forth = improves_upon(order_call.guess1, order_call.guess2, order_call.common_words),
            !.back = improves_upon(order_call.guess2, order_call.guess1, order_call.common_words)]
    /\ UNCHANGED <<scorer_call, partition_call, solver_call, run, quordle, bench>>

OrderNext == ImprovesUpon

SpecOrder == OrderInit /\ [][OrderNext]_vars

\* The priority the ordering is decided in, as a sort key compared
\* lexicographically: largest bucket, not-a-common-word, fewer buckets, word.
Precedes(a, b, cw) ==
    LET out(g) == IF g.word \in cw THEN 0 ELSE 1
    IN  \/ a.size_of_largest_bucket < b.size_of_largest_bucket
        \/ /\ a.size_of_largest_bucket = b.size_of_largest_bucket
           /\ \/ out(a) < out(b)
              \/ /\ out(a) = out(b)
                 /\ \/ a.number_of_buckets > b.number_of_buckets
                    \/ /\ a.number_of_buckets = b.number_of_buckets
                       /\ StrLess(a.word, b.word)

\* C5: for a fixed common_words, improves_upon is a strict total order on
\* Guess records with distinct words (irreflexive, asymmetric, transitive,
\* exactly one of two records with distinct words improves upon the other),
\* decided by: smaller largest bucket, then membership of the word in
\* common_words, then more buckets, then the lexicographically smaller word.
C5_StrictTotalOrder ==
    order_call.pc = "compared" =>
        LET a == order_call.guess1
            b == order_call.guess2
            cw == order_call.common_words
        IN  /\ a = b => ~order_call.forth
            /\ ~(order_call.forth /\ order_call.back)
            /\ a.word # b.word => (order_call.forth \/ order_call.back)
            /\ order_call.forth <=> Precedes(a, b, cw)
            /\ order_call.back <=> Precedes(b, a, cw)
            /\ \A c \in GuessRecords :
                 (order_call.forth /\ improves_upon(b, c, cw)) => improves_upon(a, c, cw)

\* Two records that tie on the largest bucket, the first one's word not a
\* common word and with more buckets, the second one's a common word: the
\* second improves upon the first.
C5_Witness ==
    /\ order_call.pc = "compared"
    /\ order_call.guess1.size_of_largest_bucket = order_call.guess2.size_of_largest_bucket
    /\ order_call.guess1.number_of_buckets > order_call.guess2.number_of_buckets
    /\ order_call.guess1.word \notin order_call.common_words
    /\ order_call.guess2.word \in order_call.common_words
    /\ order_call.back
    /\ ~order_call.forth

\* -------------------------------------- MinimaxSolver.get_best_guess, called
\* A candidate set in two of the orders a Python set may be iterated in.
Reverse(s) == [k \in 1..Len(s) |-> s[Len(s) + 1 - k]]

TwoOrders == UNION {{Sorted(S), Reverse(Sorted(S))} : S \in SUBSET Lexicon \ {{}}}

SolverInit ==
    /\ \E c \in TwoOrders, v \in CandidateSeries :
        solver_call = [pc |-> "args", potential_solutions |-> c, all_words |-> v,
                       best_guess |-> Idle]
    /\ scorer_call = Idle
    /\ partition_call = Idle
    /\ order_call = Idle
    /\ run = Idle
    /\ quordle = Idle
    /\ bench = Idle

\* solver.get_best_guess(potential_solutions, all_words); the two sets are
\* iterated in the orders the call holds
GetBestGuess ==
    /\ solver_call.pc = "args"
    /\ solver_call' = [solver_call EXCEPT !.pc = "returned",
            !.best_guess = MinimaxSolver_get_best_guess(solver_call.potential_solutions,
                                                        solver_call.all_words)]
    /\ UNCHANGED <<scorer_call, partition_call, order_call, run, quordle, bench>>

SolverNext == GetBestGuess

SpecSolver == SolverInit /\ [][SolverNext]_vars

\* The buckets a word splits a candidate set into, as a set of sets.
BucketsOf(C, word) ==
    LET sc == [c \in C |-> score_word(c, word)]
    IN  {{c \in C : sc[c] = s} : s \in {sc[c] : c \in C}}

\* The record of a word against a candidate set, from the buckets.
RecordOf(C, word) ==
    LET buckets == BucketsOf(C, word)
        sizes == {Cardinality(B) : B \in buckets}
    IN  [word |-> word,
         size_of_largest_bucket |-> CHOOSE n \in sizes : \A m \in sizes : m <= n,
         number_of_buckets |-> Cardinality(buckets)]

\* C6: get_best_guess(candidates, vocabulary) returns the record of the one
\* vocabulary word that improves upon every other (with common_words =
\* candidates, the statistics taken against candidates), whatever the order in
\* which the vocabulary and the candidates are iterated.
C6_BestGuessIsLeast ==
    solver_call.pc = "returned" =>
        LET C == Range(solver_call.potential_solutions)
            V == Range(solver_call.all_words)
            best == solver_call.best_guess
            rec == [v \in V |-> RecordOf(C, v)]
        IN  /\ best.word \in V
            /\ best = rec[best.word]
            /\ \A v \in V \ {best.word} :
                 /\ Precedes(best, rec[v], C)
                 /\ ~Precedes(rec[v], best, C)
            /\ best = MinimaxSolver_get_best_guess(Sorted(C), Sorted(V))

\* A call whose vocabulary holds the least word last, a word outside the
\* candidates first, and at least three words.
C6_Witness ==
    /\ solver_call.pc = "returned"
    /\ Len(solver_call.all_words) >= 3
    /\ Len(solver_call.potential_solutions) >= 2
    /\ solver_call.all_words[Len(solver_call.all_words)] = solver_call.best_guess.word
    /\ solver_call.all_words[1] \notin Range(solver_call.potential_solutions)
    /\ solver_call.all_words # Sorted(Range(solver_call.all_words))

\* ------------------------------------------------------- Simulator.run, called
\* The dictionaries: (all_words, common_words), each a WordSeries in sorted
\* order, common_words not empty and within all_words.
SmallDictionaries ==
    {<<Sorted(S \cup E), Sorted(S)>> :
        <<S, E>> \in {p \in (SUBSET Lexicon) \X (SUBSET Lexicon) : p[1] # {} /\ p[1] \cap p[2] = {}}}

\* The one-letter words "A", "B", ...: a guess tells one candidate from the rest.
AlphabetWords == {<<c>> : c \in 1..BigAlphabet}

AlphabetDictionary == <<Sorted(AlphabetWords), Sorted(AlphabetWords)>>

\* Words that differ in their first letter as well: a guess may score 0 at
\* the most significant position.
SpreadWords == {WordAt((7 * k) % NumWords) : k \in 0..(LexSize - 1)}

SpreadDictionary == <<Sorted(SpreadWords), Sorted(SpreadWords)>>

RunInit ==
    /\ \/ \E d \in SmallDictionaries, s \in Lexicon, g \in Lexicon :
            run = run_start(d[1], d[2], s, g)
       \/ \E s \in Words, g \in SpreadWords :
            run = run_start(SpreadDictionary[1], SpreadDictionary[2], s, g)
       \/ \E s \in AlphabetWords, g \in AlphabetWords :
            run = run_start(AlphabetDictionary[1], AlphabetDictionary[2], s, g)
    /\ scorer_call = Idle
    /\ partition_call = Idle
    /\ order_call = Idle
    /\ solver_call = Idle
    /\ quordle = Idle
    /\ bench = Idle

\* one iteration of "for i in range(MAX_ITERS)"
RunTurn ==
    /\ run.pc = "guessing"
    /\ run.i < MAX_ITERS
    /\ run' = run_body(run)
    /\ UNCHANGED <<scorer_call, partition_call, order_call, solver_call, quordle, bench>>

\* the loop is used up: raise FailedToFindASolutionError
RunRaise ==
    /\ run.pc = "guessing"
    /\ run.i = MAX_ITERS
    /\ run' = run_raise(run)
    /\ UNCHANGED <<scorer_call, partition_call, order_call, solver_call, quordle, bench>>

RunNext == RunTurn \/ RunRaise

SpecRun == RunInit /\ [][RunNext]_vars

\* The positions of the guesses played that equal the solution.
Hits(r) == {k \in 1..Len(r.guesses) : r.guesses[k] = r.solution}

\* C7: Simulator.run is a state machine Guessing -> {Converged, Exhausted}:
\* it returns k in 1..15 exactly when the k-th guess played is the first one
\* equal to the solution, and nothing is played afterwards; it ends Exhausted
\* exactly when none of the first 15 guesses equals the solution; it never
\* plays a 16th guess.
C7_RunStateMachine ==
    /\ run.pc \in {"guessing", "converged", "exhausted"}
    /\ Len(run.guesses) <= MAX_ITERS
    /\ run.pc = "guessing" => Hits(run) = {}
    /\ run.pc = "converged" =>
         /\ run.returned \in 1..MAX_ITERS
         /\ run.returned = Len(run.guesses)
         /\ Hits(run) = {run.returned}
    /\ run.pc = "exhausted" =>
         /\ Len(run.guesses) = MAX_ITERS
         /\ Hits(run) = {}

\* The run of a solution that is one of the candidate solutions never misses
\* histogram[observed_score], and the statement above holds of it.
RunOfACandidateSolution ==
    run.solution \in Range(run.common_words) => C7_RunStateMachine

\* ----------------------------------------------- Simulator.run_quordle, called
\* Every list of 1..MaxSolutions words of S.
Lists(S) == UNION {[1..n -> S] : n \in 1..MaxSolutions}

QuordleInit ==
    /\ \E S \in SUBSET Lexicon \ {{}}, sols \in Lists(Lexicon), g \in Lexicon :
            quordle = quordle_start(Sorted(Lexicon), Sorted(S), sols, g)
    /\ scorer_call = Idle
    /\ partition_call = Idle
    /\ order_call = Idle
    /\ solver_call = Idle
    /\ run = Idle
    /\ bench = Idle

\* one iteration of "for _ in range(MAX_ITERS)"; the solver's choice of the
\* next shared guess is any word of all_words
QuordleTurn ==
    /\ quordle.pc = "guessing"
    /\ quordle.iters < MAX_ITERS
    /\ \E next_guess \in Range(quordle.all_words) :
            quordle' = quordle_body(quordle, next_guess)
    /\ UNCHANGED <<scorer_call, partition_call, order_call, solver_call, run, bench>>

\* the loop is used up: raise FailedToFindASolutionError
QuordleRaise ==
    /\ quordle.pc = "guessing"
    /\ quordle.iters = MAX_ITERS
    /\ quordle' = [quordle EXCEPT !.pc = "exhausted"]
    /\ UNCHANGED <<scorer_call, partition_call, order_call, solver_call, run, bench>>

QuordleNext == QuordleTurn \/ QuordleRaise

SpecQuordle == QuordleInit /\ [][QuordleNext]_vars

\* C8: a run_quordle run ends with every solution solved or with exhaustion
\* reported after the 15-turn cap; each turn scores every still-unsolved
\* solution against the shared guess; every solution whose feedback on that
\* turn is perfect is removed; a removed solution is never scored again; the
\* run ends successfully exactly when all solutions have been removed.
C8_QuordleRun ==
    /\ quordle.pc \in {"guessing", "done", "exhausted"}
    /\ quordle.iters <= MAX_ITERS
    /\ quordle.pc = "exhausted" => quordle.iters = MAX_ITERS
    /\ quordle.iters > 0 => quordle.scored = (1..Len(quordle.given)) \ quordle.removed_before
    /\ quordle.perfect \subseteq quordle.removed
    /\ quordle.scored \cap quordle.removed_before = {}
    /\ quordle.pc = "done" <=> quordle.removed = 1..Len(quordle.given)

\* The run of distinct candidate solutions ends as the statement above says.
QuordleOfDistinctCandidateSolutions ==
    ( /\ \A i \in 1..Len(quordle.given) : \A j \in 1..Len(quordle.given) :
            i # j => quordle.given[i] # quordle.given[j]
      /\ Range(quordle.given) \subseteq Range(quordle.common_words) )
    => C8_QuordleRun

\* ------------------------------------------- Benchmarker.run_benchmark, called
\* The call's state: tasks[k] is what f(common_words[k]) gives once it has
\* run; completed holds the tasks that have run; overtaken says whether some
\* task completed while one submitted before it was still running.
bench_start(all_words, common_words, first_guess) ==
    [pc |-> "pool", all_words |-> all_words, common_words |-> common_words,
     first_guess |-> first_guess,
     tasks |-> [k \in 1..Len(common_words) |->
                    benchmark_task(all_words, common_words, common_words[k], first_guess)],
     completed |-> {}, overtaken |-> FALSE, histogram |-> EmptyDict]

BenchInit ==
    /\ \/ \E d \in SmallDictionaries, g \in Lexicon :
            bench = bench_start(d[1], d[2], g)
       \/ \E g \in {<<1>>, <<BigAlphabet>>} :
            bench = bench_start(AlphabetDictionary[1], AlphabetDictionary[2], g)
    /\ scorer_call = Idle
    /\ partition_call = Idle
    /\ order_call = Idle
    /\ solver_call = Idle
    /\ run = Idle
    /\ quordle = Idle

\* The tasks a worker process is running: the pool takes the tasks in the
\* order executor.map submitted them, max_workers at a time.
Running ==
    {k \in 1..Len(bench.tasks) :
        /\ k \notin bench.completed
        /\ Cardinality({j \in 1..(k - 1) : j \notin bench.completed}) < max_workers}

\* a worker process finishes one simulator.run
WorkerCompletes ==
    /\ bench.pc = "pool"
    /\ \E k \in Running :
         bench' = [bench EXCEPT !.completed = bench.completed \cup {k},
                                !.overtaken = bench.overtaken
                                    \/ \E j \in Running : j < k]
    /\ UNCHANGED <<scorer_call, partition_call, order_call, solver_call, run, quordle>>

\* the "with" block is left once every task has run; then the loop over
\* n_guess, and self.reporter.display(histogram) unless the loop raised
Aggregate ==
    /\ bench.pc = "pool"
    /\ bench.completed = 1..Len(bench.tasks)
    /\ LET end == aggregate(bench.tasks, 1, EmptyDict)
       IN  bench' = [bench EXCEPT !.pc = IF end.raised THEN "raised" ELSE "displayed",
                                  !.histogram = end.histogram]
    /\ UNCHANGED <<scorer_call, partition_call, order_call, solver_call, run, quordle>>

BenchNext == WorkerCompletes \/ Aggregate

SpecBench == BenchInit /\ [][BenchNext]_vars

\* What Simulator.run gives for the k-th reference solution, run on its own.
RunAlone(k) ==
    Simulator_run(run_start(bench.all_words, bench.common_words,
                            bench.common_words[k], bench.first_guess))

\* C9: a run that reaches the turn cap is surfaced as a distinguished failure
\* outcome and does not abort the batch: run_benchmark still ends by
\* displaying the histogram, which holds the turn counts of all the runs that
\* converged.
C9_ExhaustionDoesNotAbort ==
    bench.pc \in {"displayed", "raised"} =>
        /\ bench.pc = "displayed"
        /\ \A n \in 1..MAX_ITERS :
             LET runs == {k \in 1..Len(bench.common_words) :
                            RunAlone(k).pc = "converged" /\ RunAlone(k).returned = n}
             IN  IF runs = {} THEN n \notin DOMAIN bench.histogram
                 ELSE n \in DOMAIN bench.histogram /\ bench.histogram[n] = Cardinality(runs)

\* C10: the histogram run_benchmark displays does not depend on the order in
\* which the worker runs complete: for each turn count n it holds the number
\* of reference solutions whose own Simulator.run returns n, and when every
\* run converges the counts sum to the number of reference solutions.
C10_HistogramOrderFree ==
    bench.pc = "displayed" =>
        LET N == Len(bench.common_words)
            alone == [k \in 1..N |-> RunAlone(k)]
            runs(n) == {k \in 1..N : alone[k].pc = "converged" /\ alone[k].returned = n}
        IN  /\ DOMAIN bench.histogram = {n \in 1..MAX_ITERS : runs(n) # {}}
            /\ \A n \in DOMAIN bench.histogram : bench.histogram[n] = Cardinality(runs(n))
            /\ (\A k \in 1..N : alone[k].pc = "converged")
                 => SumSeq(dict_values(bench.histogram)) = N

\* A displayed histogram of several runs with different turn counts, two of
\* them with the same, some run having completed before one submitted earlier.
C10_Witness ==
    /\ bench.pc = "displayed"
    /\ bench.overtaken
    /\ Cardinality(DOMAIN bench.histogram) >= 2
    /\ \E n \in DOMAIN bench.histogram : bench.histogram[n] >= 2

\* ------------------------------------- Simulator.run: the feedback of a turn
\* The candidates of r that produce the observed score against the guess
\* played last.
Consistent(r) ==
    {c \in Range(r.available_answers) :
        score_word(c, r.guesses[Len(r.guesses)]) = r.observed_score}

\* C11: when the observed score narrows the candidate set to empty (no
\* remaining candidate produces that score against the current guess), the
\* simulation loop reports the condition and ends without a crash.
C11_NoRemainingCandidatesReported ==
    (Len(run.guesses) > 0 /\ Consistent(run) = {}) => run.pc # "crashed"

\* C12: on every turn the feedback string handed to the reporter is the
\* base-3 digit string of the observed score, most significant digit first,
\* zero-padded to the word length L: exactly L characters.
C12_TernaryScorePadded ==
    (Len(run.guesses) > 0 /\ run.pc # "crashed") =>
        LET L == Len(run.solution)
        IN  /\ Len(run.ternary_score) = L
            /\ \A i \in 1..L : run.ternary_score[i] = DigitAt(run.observed_score, L, i)

\* The string handed over is the base-3 numeral of the observed score without
\* leading zeros (one "0" for the score 0).
TernaryScoreUnpadded ==
    (Len(run.guesses) > 0 /\ run.pc # "crashed") =>
        LET L == Len(run.solution)
            n == Len(run.ternary_score)
        IN  /\ n \in 1..L
            /\ n > 1 => run.ternary_score[1] # 0
            /\ \A i \in 1..n : run.ternary_score[i] = DigitAt(run.observed_score, L, L - n + i)
            /\ \A i \in 1..(L - n) : DigitAt(run.observed_score, L, i) = 0

\* ------------------------------- Simulator.run: the candidate set of a turn
\* The initial candidates whose score against every guess played so far is
\* the solution's score against that guess.
ConsistentWithAllFeedback(r) ==
    {c \in Range(r.common_words) :
        \A k \in 1..Len(r.guesses) :
            score_word(c, r.guesses[k]) = score_word(r.solution, r.guesses[k])}

\* C14: in Simulator.run with a solution that is one of the initial
\* candidates, after every turn the candidate set (a) still contains the
\* solution, (b) is a subset of the candidate set of the turn before, and (c)
\* is exactly the set of initial candidates whose score against every guess
\* played so far equals the solution's; hence it is never empty.
C14_CandidateSetNarrows ==
    /\ [](run.solution \in Range(run.common_words) =>
            /\ run.solution \in Range(run.available_answers)
            /\ Range(run.available_answers) = ConsistentWithAllFeedback(run)
            /\ Range(run.available_answers) # {})
    /\ [][run.solution \in Range(run.common_words) =>
            Range(run'.available_answers) \subseteq Range(run.available_answers)]_vars

\* A run of a candidate solution still going after two turns, each of which
\* removed candidates, with more than one candidate left.
C14_Witness ==
    /\ run.pc = "guessing"
    /\ run.solution \in Range(run.common_words)
    /\ Len(run.guesses) >= 2
    /\ Len(run.available_answers) > 1
    /\ Len(run.available_answers) + 2 <= Len(run.common_words)
    /\ \E c \in Range(run.common_words) :
         /\ score_word(c, run.guesses[1]) = score_word(run.solution, run.guesses[1])
         /\ score_word(c, run.guesses[2]) # score_word(run.solution, run.guesses[2])

\* --------------------------------- DeepMinimaxSolver.get_best_guess, called
DeepStarts == 9
DeepMinCandidates == 6
DeepMaxCandidates == 8
DeepVocabularySize == 7
DeepVocabularies == 6

\* n words of the given length, a stride apart from the a-th on.
WordsFrom(a, stride, n) == {WordAt((a + stride * k) % NumWords) : k \in 0..(n - 1)}

DeepInit ==
    /\ \E a \in 0..(DeepStarts - 1), n \in DeepMinCandidates..DeepMaxCandidates,
          b \in 0..(DeepVocabularies - 1) :
         \E c \in {Sorted(WordsFrom(a, 5, n)), Reverse(Sorted(WordsFrom(a, 5, n)))} :
            solver_call = [pc |-> "deep_args", potential_solutions |-> c,
                           all_words |-> Sorted(WordsFrom(b, 4, DeepVocabularySize)),
                           best_guess |-> Idle]
    /\ scorer_call = Idle
    /\ partition_call = Idle
    /\ order_call = Idle
    /\ run = Idle
    /\ quordle = Idle
    /\ bench = Idle

\* deep_solver.get_best_guess(potential_solutions, all_words)
DeepGetBestGuess ==
    /\ solver_call.pc = "deep_args"
    /\ solver_call' = [solver_call EXCEPT !.pc = "deep_returned",
            !.best_guess = DeepMinimaxSolver_get_best_guess(solver_call.potential_solutions,
                                                            solver_call.all_words)]
    /\ UNCHANGED <<scorer_call, partition_call, order_call, run, quordle, bench>>

DeepNext == DeepGetBestGuess

SpecDeep == DeepInit /\ [][DeepNext]_vars

\* The vocabulary words fewer than N_BRANCH others precede against C.
TopWords(C, V) ==
    LET recs == {RecordOf(C, v) : v \in V}
    IN  {r.word : r \in {x \in recs :
                            Cardinality({u \in recs : Precedes(u, x, C)}) < N_BRANCH}}

\* The ways to take the (at most) N_BRANCH largest buckets of a word.
LargestBuckets(C, word) ==
    LET buckets == BucketsOf(C, word)
        n == IF Cardinality(buckets) < N_BRANCH THEN Cardinality(buckets) ELSE N_BRANCH
    IN  {T \in SUBSET buckets :
            /\ Cardinality(T) = n
            /\ \A B \in T, A \in buckets \ T : Cardinality(B) >= Cardinality(A)}

\* The inner solver's best guess against a bucket: the record of the
\* vocabulary word that precedes every other against the bucket.
InnerBest(B, V) ==
    LET recs == {RecordOf(B, v) : v \in V}
    IN  CHOOSE r \in recs : \A u \in recs \ {r} : Precedes(r, u, B)

\* The worst nested best guesses of an outer word: for a choice of its
\* largest buckets, an inner best guess that precedes no other.
WorstNested(C, V, word) ==
    LET inner == {<<B, InnerBest(B, V)>> : B \in BucketsOf(C, word)}
    IN  UNION {LET nested == {p[2] : p \in {q \in inner : q[1] \in T}}
               IN  {w \in nested : \A n \in nested : ~Precedes(w, n, C)} :
               T \in LargestBuckets(C, word)}

\* C13: DeepMinimaxSolver.get_best_guess returns (the record of) one of the
\* at most N_BRANCH vocabulary words that are best under the base ordering
\* against the candidates; among them, one for which the worst (maximal under
\* the base ordering) of the inner solver's best guesses over its at most
\* N_BRANCH largest buckets is best (minimal under the base ordering).
C13_DeepBestGuess ==
    solver_call.pc = "deep_returned" =>
        LET C == Range(solver_call.potential_solutions)
            V == Range(solver_call.all_words)
            best == solver_call.best_guess
            top == TopWords(C, V)
            worst == {<<g, WorstNested(C, V, g)>> : g \in top}
        IN  /\ best.word \in top
            /\ best = RecordOf(C, best.word)
            /\ \E p \in worst :
                 /\ p[1] = best.word
                 /\ \E w \in p[2] : \A q \in worst : \E x \in q[2] : ~Precedes(x, w, C)

\* A call with more than N_BRANCH vocabulary words whose answer is not the
\* plain minimax answer and splits the candidates into more than N_BRANCH
\* buckets.
C13_Witness ==
    /\ solver_call.pc = "deep_returned"
    /\ Len(solver_call.all_words) > N_BRANCH
    /\ solver_call.best_guess.word #
         MinimaxSolver_get_best_guess(solver_call.potential_solutions,
                                      solver_call.all_words).word
    /\ Cardinality(BucketsOf(Range(solver_call.potential_solutions),
                             solver_call.best_guess.word)) > N_BRANCH

====
